---- MODULE Spec2Model ----
(***************************************************************************)
(* Model of the transcript cleaner: the Express server of src/src/server.ts *)
(* (four POST handlers that relay a transcript to the chat-completion       *)
(* provider and post-process the answer, and the regular-expression         *)
(* preprocessor preprocessMissingLabels) and the browser client of          *)
(* src/public/script.js (the Clean / Verify / Segment / Disclaimer / Clear  *)
(* handlers and the job-status poll).                                       *)
(*                                                                          *)
(* Text is modelled as TLA+ strings, character by character.  A TLA+ string *)
(* literal cannot hold the backquote character U+0060, so the backquote is  *)
(* written "~" throughout (BT); no modelled text uses a real tilde.         *)
(***************************************************************************)
EXTENDS Integers, Sequences, FiniteSets, TLC

(***************************************************************************)
(* Characters and JavaScript string primitives.                            *)
(***************************************************************************)
BT == "~"
Fence == BT \o BT \o BT

CharAt(s, i) == SubSeq(s, i, i)

ToLower ==
    "A" :> "a" @@ "B" :> "b" @@ "C" :> "c" @@ "D" :> "d" @@ "E" :> "e" @@
    "F" :> "f" @@ "G" :> "g" @@ "H" :> "h" @@ "I" :> "i" @@ "J" :> "j" @@
    "K" :> "k" @@ "L" :> "l" @@ "M" :> "m" @@ "N" :> "n" @@ "O" :> "o" @@
    "P" :> "p" @@ "Q" :> "q" @@ "R" :> "r" @@ "S" :> "s" @@ "T" :> "t" @@
    "U" :> "u" @@ "V" :> "v" @@ "W" :> "w" @@ "X" :> "x" @@ "Y" :> "y" @@
    "Z" :> "z"

UpperLetters == DOMAIN ToLower
LowerLetters == {ToLower[c] : c \in UpperLetters}

\* Canonicalisation of a character under the regular-expression flag i.
Fold(c) == IF c \in UpperLetters THEN ToLower[c] ELSE c

\* \s of a JavaScript regular expression, and the characters trim() removes.
IsSpace(c) == c \in {" ", "\n", "\t", "\r"}

Min2(a, b) == IF a <= b THEN a ELSE b
Max2(a, b) == IF a >= b THEN a ELSE b

\* String.prototype.substring(a, b) with 0-based indices, clamped as
\* JavaScript clamps them.
Substring(s, a, b) ==
    LET a0 == Max2(0, Min2(a, Len(s)))
        b0 == Max2(0, Min2(b, Len(s)))
    IN  SubSeq(s, Min2(a0, b0) + 1, Max2(a0, b0))

SubstringFrom(s, a) == Substring(s, a, Len(s))

\* String.prototype.trim().
Trim(str) ==
    LET keep == {p \in 1..Len(str) : ~IsSpace(CharAt(str, p))}
    IN  IF keep = {} THEN ""
        ELSE LET lo == CHOOSE p \in keep : \A q \in keep : p <= q
                 hi == CHOOSE p \in keep : \A q \in keep : p >= q
             IN  SubSeq(str, lo, hi)

(***************************************************************************)
(* JavaScript regular expressions.  A pattern is a sequence of nodes.  The  *)
(* matcher of the language backtracks: alternatives are tried left to       *)
(* right, a greedy quantifier tries the longest repetition first and a lazy *)
(* one the shortest, and the first complete match wins.  Here the matcher   *)
(* keeps, node after node, the list of all the partial matches in exactly   *)
(* that order of preference; the head of the final list is the match the    *)
(* backtracking search finds first.  Positions are 1-based: a partial match *)
(* at pos consumes CharAt(s, pos) next.                                     *)
(***************************************************************************)
Unbounded == 0 - 1

Lit(str) == [k |-> "lit", str |-> str]
Rep(c, lo, hi, lz) == [k |-> "rep", cls |-> c, min |-> lo, max |-> hi, lazy |-> lz]
Cls(c) == Rep(c, 1, 1, FALSE)
Star(c) == Rep(c, 0, Unbounded, FALSE)
Plus(c) == Rep(c, 1, Unbounded, FALSE)
Alt(as) == [k |-> "alt", alts |-> as]
Opt(body) == Alt(<<body, <<>>>>)
Grp(i, body) == [k |-> "grp", idx |-> i, body |-> body]
Ahead(as) == [k |-> "ahead", alts |-> as]
Bol == [k |-> "bol"]
Eol == [k |-> "eol"]
NoNode == [k |-> "none"]

\* Character classes: "s" is \s, "any" is [\s\S], "name" is [^\.\,\n],
\* "upper" is [A-Z], "notstar" is [^*], "notcomma" is [^,].
ClsHas(cls, c, ic) ==
    CASE cls = "s" -> IsSpace(c)
      [] cls = "any" -> TRUE
      [] cls = "name" -> c \notin {".", ",", "\n"}
      [] cls = "upper" -> c \in UpperLetters \/ (ic /\ c \in LowerLetters)
      [] cls = "notstar" -> c # "*"
      [] cls = "notcomma" -> c # ","

LitAt(s, pos, lit, ic) ==
    /\ pos + Len(lit) - 1 <= Len(s)
    /\ IF ic
       THEN \A j \in 1..Len(lit) : Fold(CharAt(s, pos + j - 1)) = Fold(CharAt(lit, j))
       ELSE SubSeq(s, pos, pos + Len(lit) - 1) = lit

\* How many characters in a row from pos are in the class, at most cap.
RunLen(s, cls, pos, cap, ic) ==
    IF cls = "any" THEN cap
    ELSE LET stop == CHOOSE j \in pos..(pos + cap) :
                        /\ j = pos + cap \/ ~ClsHas(cls, CharAt(s, j), ic)
                        /\ \A i \in pos..(j - 1) : ClsHas(cls, CharAt(s, i), ic)
         IN  stop - pos

NoCaps == [i \in 1..4 |-> <<0, 0>>]
NoMatch == [ok |-> FALSE, index |-> 0, end |-> 0, caps |-> NoCaps]

\* F applied to the value of v, v evaluated once.
Bind(v, F(_)) == CHOOSE r \in {F(w) : w \in {v}} : TRUE

RECURSIVE StepOne(_, _, _, _, _)
RECURSIVE StepAll(_, _, _, _, _, _, _)
RECURSIVE RunSeq(_, _, _, _, _)
RECURSIVE RunAlts(_, _, _, _, _)

\* The partial matches one node n leaves of the partial match st, in order of
\* preference.  st is [index, pos, caps]: where the match began, the next
\* position, and the span <<first, end>> of each capture group.  A quantifier
\* followed by the node next drops at once the repetitions next cannot follow.
StepOne(s, n, next, st, ic) ==
    CASE n.k = "lit" ->
           IF LitAt(s, st.pos, n.str, ic)
           THEN <<[st EXCEPT !.pos = @ + Len(n.str)]>>
           ELSE <<>>
      [] n.k = "rep" ->
           LET room == Len(s) - st.pos + 1
               cap == IF n.max = Unbounded THEN room ELSE Min2(n.max, room)
               run == RunLen(s, n.cls, st.pos, cap, ic)
               count(c) == IF n.lazy THEN n.min + c - 1 ELSE run - c + 1
               all == [c \in 1..(run - n.min + 1) |-> [st EXCEPT !.pos = @ + count(c)]]
           IN  IF run < n.min THEN <<>>
               ELSE IF next.k = "none" THEN all
               ELSE SelectSeq(all, LAMBDA t : Len(StepOne(s, next, NoNode, t, ic)) > 0)
      [] n.k = "alt" -> RunAlts(s, n.alts, 1, st, ic)
      [] n.k = "grp" ->
           Bind(RunSeq(s, n.body, 1, <<st>>, ic),
                LAMBDA outs : [j \in 1..Len(outs) |->
                    [outs[j] EXCEPT !.caps[n.idx] = <<st.pos, outs[j].pos>>]])
      [] n.k = "ahead" ->
           IF Len(RunAlts(s, n.alts, 1, st, ic)) > 0 THEN <<st>> ELSE <<>>
      [] n.k = "bol" -> IF st.pos = 1 THEN <<st>> ELSE <<>>
      [] n.k = "eol" -> IF st.pos = Len(s) + 1 THEN <<st>> ELSE <<>>

\* StepOne of every partial match of states[lo..hi], in order.
StepAll(s, n, next, states, lo, hi, ic) ==
    IF lo > hi THEN <<>>
    ELSE IF lo = hi THEN StepOne(s, n, next, states[lo], ic)
    ELSE LET mid == (lo + hi) \div 2
         IN  StepAll(s, n, next, states, lo, mid, ic)
               \o StepAll(s, n, next, states, mid + 1, hi, ic)

\* The partial matches the nodes i.. of a sequence leave of states.
RunSeq(s, nodes, i, states, ic) ==
    IF i > Len(nodes) \/ Len(states) = 0 THEN states
    ELSE Bind(StepAll(s, nodes[i], IF i < Len(nodes) THEN nodes[i + 1] ELSE NoNode,
                      states, 1, Len(states), ic),
              LAMBDA nx : RunSeq(s, nodes, i + 1, nx, ic))

\* The alternatives i.. of an alternation, the earlier ones preferred.
RunAlts(s, alts, i, st, ic) ==
    IF i > Len(alts) THEN <<>>
    ELSE RunSeq(s, alts[i], 1, <<st>>, ic) \o RunAlts(s, alts, i + 1, st, ic)

\* RegExp.prototype.exec from lastIndex (here the 1-based position from):
\* the preferred match at the leftmost position that has one.
ExecOn(pattern, s, from, ic) ==
    LET starts == [p \in 1..(Len(s) + 2 - from) |->
                      [index |-> from + p - 1, pos |-> from + p - 1, caps |-> NoCaps]]
        first == pattern[1]
        alive == SelectSeq(starts, LAMBDA t : Len(StepOne(s, first, NoNode, t, ic)) > 0)
    IN  Bind(RunSeq(s, pattern, 1, alive, ic),
             LAMBDA found : IF Len(found) = 0 THEN NoMatch
                            ELSE [ok |-> TRUE, index |-> found[1].index,
                                  end |-> found[1].pos, caps |-> found[1].caps])

Exec(pattern, str, from, ic) ==
    Bind(str, LAMBDA s : ExecOn(pattern, s, from, ic))

\* The text of capture group i of match m, and the whole matched text.
Group(s, m, i) == SubSeq(s, m.caps[i][1], m.caps[i][2] - 1)
Matched(s, m) == SubSeq(s, m.index, m.end - 1)

\* String.prototype.replace(pattern, pre + $1 + post) with the flag g, from the
\* 1-based position from on: every match, left to right, no two overlapping.
\* When useGrp is FALSE the replacement is pre \o post alone.
RECURSIVE ReplaceAll(_, _, _, _, _, _, _)
ReplaceAll(pattern, s, from, ic, pre, useGrp, post) ==
    Bind(Exec(pattern, s, from, ic), LAMBDA m :
        IF ~m.ok THEN SubSeq(s, from, Len(s))
        ELSE LET repl == pre \o (IF useGrp THEN Group(s, m, 1) ELSE "") \o post
             IN  IF m.end > m.index
                 THEN SubSeq(s, from, m.index - 1) \o repl
                        \o ReplaceAll(pattern, s, m.end, ic, pre, useGrp, post)
                 ELSE IF m.index > Len(s)
                      THEN SubSeq(s, from, Len(s)) \o repl
                      ELSE SubSeq(s, from, m.index - 1) \o repl \o CharAt(s, m.index)
                             \o ReplaceAll(pattern, s, m.index + 1, ic, pre, useGrp, post))

\* String.prototype.includes(lit), and the text before and after the first
\* lit, as split(lit)[0] and the rest.
Includes(s, lit) == \E p \in 1..(Len(s) - Len(lit) + 1) : SubSeq(s, p, p + Len(lit) - 1) = lit
IndexOf(s, lit) ==
    IF Includes(s, lit)
    THEN CHOOSE p \in 1..(Len(s) - Len(lit) + 1) :
            /\ SubSeq(s, p, p + Len(lit) - 1) = lit
            /\ \A q \in 1..(p - 1) : SubSeq(s, q, q + Len(lit) - 1) # lit
    ELSE 0
Before(s, lit) == IF Includes(s, lit) THEN SubSeq(s, 1, IndexOf(s, lit) - 1) ELSE s
After(s, lit) ==
    IF Includes(s, lit) THEN SubSeq(s, IndexOf(s, lit) + Len(lit), Len(s)) ELSE ""

(***************************************************************************)
(* preprocessMissingLabels (src/src/server.ts).                            *)
(***************************************************************************)
\* {0,200}: the most characters the pattern lets the unlabeled text have.
MaxNextText == 200

\* ((?:<strong>)?Operator(?:<\/strong>)?|OPERATOR\(\))\s*\n\s*0?\s*\n
operatorHead ==
    <<Grp(1, <<Alt(<< <<Opt(<<Lit("<strong>")>>), Lit("Operator"),
                        Opt(<<Lit("</strong>")>>)>>,
                      <<Lit("OPERATOR()")>> >>)>>),
      Star("s"), Lit("\n"), Star("s"), Opt(<<Lit("0")>>), Star("s"), Lit("\n")>>

\* \s*\n\s*\n([\s\S]{0,200}?)(?=\n\s*<strong>|\n\s*[A-Z][A-Z]+\(\)|$)
nextTextTail ==
    <<Star("s"), Lit("\n"), Star("s"), Lit("\n"),
      Grp(4, <<Rep("any", 0, MaxNextText, TRUE)>>),
      Ahead(<< <<Lit("\n"), Star("s"), Lit("<strong>")>>,
               <<Lit("\n"), Star("s"), Cls("upper"), Plus("upper"), Lit("()")>>,
               <<Eol>> >>)>>

handoffPattern ==
    operatorHead \o
    <<Grp(2, <<Rep("any", 0, Unbounded, TRUE)>>),
      Alt(<< <<Lit("turn"), Plus("s"), Lit("the"), Plus("s"), Lit("call"), Plus("s"),
               Lit("over"), Plus("s"), Lit("to")>>,
             <<Lit("I will now turn the call over to")>>,
             <<Lit("I will turn the call over to")>> >>),
      Plus("s"),
      Grp(3, <<Rep("name", 1, Unbounded, TRUE)>>),
      Alt(<< <<Lit(".")>>, <<Lit(",")>> >>),
      Star("s"),
      Alt(<< <<Lit("Please"), Plus("s"), Lit("go"), Plus("s"), Lit("ahead")>>,
             <<Lit("Please"), Plus("s"), Lit("proceed")>>,
             <<Lit("Go"), Plus("s"), Lit("ahead")>> >>),
      Opt(<<Plus("s"), Lit("Sir")>>),
      Opt(<<Lit(".")>>)>>
    \o nextTextTail

analystPattern ==
    operatorHead \o
    <<Grp(2, <<Rep("any", 0, Unbounded, TRUE)>>),
      Alt(<< <<Lit("Our"), Plus("s"), Lit("next"), Plus("s"), Lit("question"), Plus("s"),
               Lit("is"), Plus("s"), Lit("from")>>,
             <<Lit("question"), Plus("s"), Lit("from")>> >>),
      Plus("s"),
      Rep("notcomma", 1, Unbounded, TRUE),
      Plus("s"),
      Alt(<< <<Lit("with")>>, <<Lit("from")>> >>),
      Plus("s"),
      Grp(3, <<Rep("name", 1, Unbounded, TRUE)>>),
      Alt(<< <<Lit(".")>>, <<Lit(",")>> >>),
      Star("s"),
      Alt(<< <<Lit("Please"), Plus("s"), Lit("proceed")>>,
             <<Lit("Please"), Plus("s"), Lit("go"), Plus("s"), Lit("ahead")>>,
             <<Lit("Go"), Plus("s"), Lit("ahead")>> >>),
      Opt(<<Lit(".")>>)>>
    \o nextTextTail

\* /^\s*<strong>|^\s*[A-Z][A-Z]+\(\)/ (no flag i)
labelStartPattern ==
    <<Alt(<< <<Bol, Star("s"), Lit("<strong>")>>,
             <<Bol, Star("s"), Cls("upper"), Plus("upper"), Lit("()")>> >>)>>

\* /(CEO|CFO|Chief\s+Executive\s+Officer|Chief\s+Financial\s+Officer|President|Chairman|founder)/i
titlePattern ==
    <<Alt(<< <<Lit("CEO")>>, <<Lit("CFO")>>,
             <<Lit("Chief"), Plus("s"), Lit("Executive"), Plus("s"), Lit("Officer")>>,
             <<Lit("Chief"), Plus("s"), Lit("Financial"), Plus("s"), Lit("Officer")>>,
             <<Lit("President")>>, <<Lit("Chairman")>>, <<Lit("founder")>> >>)>>

\* /\s+/g
spaceRunPattern == <<Plus("s")>>

\* A faulty test, which takes any text that is not empty.
NeedsLabel_Always(nextText) == nextText # ""

\* nextText && !nextText.match(labelStartPattern)
NeedsLabel(nextText) ==
    nextText # "" /\ ~Exec(labelStartPattern, nextText, 1, FALSE).ok

\* match.index + match[0].length - nextText.length, 0-based.
InsertPos(s, m) == (m.index - 1) + (m.end - m.index) - Len(Trim(Group(s, m, 4)))

\* title = ` (${titleMatch[0]})` when the operator text names a title.
TitleOf(operatorText) ==
    LET t == Exec(titlePattern, operatorText, 1, TRUE)
    IN  IF t.ok THEN " (" \o Matched(operatorText, t) \o ")" ELSE ""

\* matches.push({ index, name, title, insertPos }) for one match of the
\* hand-off pass, and analystMatches.push({ company, insertPos }).
HandoffEntry(s, m) ==
    [name |-> Trim(Group(s, m, 3)),
     title |-> TitleOf(Group(s, m, 2)),
     insertPos |-> InsertPos(s, m)]

AnalystEntry(s, m) ==
    [company |-> Trim(Group(s, m, 3)), insertPos |-> InsertPos(s, m)]

\* The body of the while loop: the match is kept when its next text is not
\* empty and does not start with a label.
Keeps(s, m) == NeedsLabel(Trim(Group(s, m, 4)))

\* while ((match = handoffPattern.exec(processed)) !== null) { ... }: the
\* matches array, each search starting where the last match ended.
RECURSIVE HandoffMatches(_, _)
HandoffMatches(s, from) ==
    Bind(Exec(handoffPattern, s, from, TRUE), LAMBDA m :
        IF ~m.ok THEN <<>>
        ELSE (IF Keeps(s, m) THEN <<HandoffEntry(s, m)>> ELSE <<>>)
               \o HandoffMatches(s, m.end))

RECURSIVE AnalystMatches(_, _)
AnalystMatches(s, from) ==
    Bind(Exec(analystPattern, s, from, TRUE), LAMBDA m :
        IF ~m.ok THEN <<>>
        ELSE (IF Keeps(s, m) THEN <<AnalystEntry(s, m)>> ELSE <<>>)
               \o AnalystMatches(s, m.end))

FormattedName(name) == Trim(ReplaceAll(spaceRunPattern, name, 1, FALSE, " ", FALSE, ""))

HandoffLabel(m) == "\n<strong>" \o FormattedName(m.name) \o "</strong>" \o m.title \o "\n\n"
HandoffChange(m) ==
    "Added missing label for " \o FormattedName(m.name) \o " after operator introduction"

AnalystLabel(m) == "\n<strong>" \o m.company \o " Analyst</strong>\n\n"
AnalystChange(m) ==
    "Added missing label for " \o m.company \o " Analyst after operator introduction"

\* processed.substring(0, insertPos) + newLabel + processed.substring(insertPos)
\* A faulty insertion, which overwrites the character at the insert position.
InsertAt_Overwrite(processed, insertPos, newLabel) ==
    Substring(processed, 0, insertPos) \o newLabel \o SubstringFrom(processed, insertPos + 1)

InsertAt(processed, insertPos, newLabel) ==
    Substring(processed, 0, insertPos) \o newLabel \o SubstringFrom(processed, insertPos)

\* matches.reverse().forEach(...): the labels go in from the last match to the
\* first, each pushing its change.  st is [transcript, changes].
RECURSIVE InsertHandoffs(_, _, _)
InsertHandoffs(st, ms, i) ==
    IF i = 0 THEN st
    ELSE InsertHandoffs(
             [transcript |-> InsertAt(st.transcript, ms[i].insertPos, HandoffLabel(ms[i])),
              changes |-> Append(st.changes, HandoffChange(ms[i]))],
             ms, i - 1)

RECURSIVE InsertAnalysts(_, _, _)
InsertAnalysts(st, ms, i) ==
    IF i = 0 THEN st
    ELSE InsertAnalysts(
             [transcript |-> InsertAt(st.transcript, ms[i].insertPos, AnalystLabel(ms[i])),
              changes |-> Append(st.changes, AnalystChange(ms[i]))],
             ms, i - 1)

HandoffPass(st) ==
    Bind(HandoffMatches(st.transcript, 1),
         LAMBDA matches : InsertHandoffs(st, matches, Len(matches)))

AnalystPass(st) ==
    Bind(AnalystMatches(st.transcript, 1),
         LAMBDA analystMatches : InsertAnalysts(st, analystMatches, Len(analystMatches)))

preprocessMissingLabels(transcript) ==
    Bind(HandoffPass([transcript |-> transcript, changes |-> <<>>]),
         LAMBDA processed : AnalystPass(processed))

(***************************************************************************)
(* Post-processing of the provider's completion in the four handlers.      *)
(***************************************************************************)
\* /^~~~html\s*/gi, /^~~~\s*/g, /\s*~~~$/g and /\*\*([^*]+)\*\*/g
fenceHtmlPattern == <<Bol, Lit(Fence \o "html"), Star("s")>>
fenceStartPattern == <<Bol, Lit(Fence), Star("s")>>
fenceEndPattern == <<Star("s"), Lit(Fence), Eol>>
boldPattern == <<Lit("**"), Grp(1, <<Plus("notstar")>>), Lit("**")>>
placeholderPattern == <<Bol, Lit("[Corrected transcript]"), Star("s")>>

ChangesMarker == "---CHANGES---"

\* .replace(/^~~~html\s*/gi, '').replace(/^~~~\s*/g, '').replace(/\s*~~~$/g, '').trim()
StripFences(content) ==
    Bind(ReplaceAll(fenceHtmlPattern, content, 1, TRUE, "", FALSE, ""), LAMBDA a :
    Bind(ReplaceAll(fenceStartPattern, a, 1, FALSE, "", FALSE, ""), LAMBDA b :
    Bind(ReplaceAll(fenceEndPattern, b, 1, FALSE, "", FALSE, ""), LAMBDA c :
         Trim(c))))

\* .replace(/\*\*([^*]+)\*\*/g, '<strong>$1</strong>')
BoldToHtml(text) == ReplaceAll(boldPattern, text, 1, FALSE, "<strong>", TRUE, "</strong>")

\* fullResponse.split('---CHANGES---'): parts[0] and parts[1]
Parts0(fullResponse) == Before(fullResponse, ChangesMarker)
Parts1(fullResponse) == Before(After(fullResponse, ChangesMarker), ChangesMarker)

\* A faulty split, which leaves the placeholder in.
RemovePlaceholder_Keep(text) == text

\* .replace(/^\[Corrected transcript\]\s*/i, ''): no g flag, the first match only
RemovePlaceholder(text) ==
    Bind(Exec(placeholderPattern, text, 1, TRUE), LAMBDA m :
         IF m.ok THEN SubSeq(text, m.end, Len(text)) ELSE text)

\* preprocessChanges.join('; ')
RECURSIVE Join(_, _)
Join(changes, sep) ==
    IF changes = <<>> THEN ""
    ELSE IF Len(changes) = 1 THEN changes[1]
    ELSE changes[1] \o sep \o Join(Tail(changes), sep)

\* A faulty split, which forgets the preprocessing changes when the response
\* has no marker.
VerifySplit_NoMarkerDefault(fullResponse, preprocessChanges) ==
    IF Includes(fullResponse, ChangesMarker)
    THEN LET changesText == Trim(Parts1(fullResponse))
         IN  [transcript |-> RemovePlaceholder(Trim(Parts0(fullResponse))),
              summary |->
                IF /\ changesText # ""
                   /\ changesText # "No speaker attribution errors found."
                   /\ changesText # "No errors found"
                THEN IF Len(preprocessChanges) > 0
                     THEN Join(preprocessChanges, "; ") \o "; " \o changesText
                     ELSE changesText
                ELSE IF Len(preprocessChanges) > 0
                     THEN Join(preprocessChanges, "; ")
                     ELSE "No speaker attribution errors found"]
    ELSE [transcript |-> fullResponse,
          summary |-> "Verified speaker attributions and corrected any misplaced labels"]

\* The split of /api/verify-speakers: the transcript field and the summary.
VerifySplit(fullResponse, preprocessChanges) ==
    IF Includes(fullResponse, ChangesMarker)
    THEN LET changesText == Trim(Parts1(fullResponse))
         IN  [transcript |-> RemovePlaceholder(Trim(Parts0(fullResponse))),
              summary |->
                IF /\ changesText # ""
                   /\ changesText # "No speaker attribution errors found."
                   /\ changesText # "No errors found"
                THEN IF Len(preprocessChanges) > 0
                     THEN Join(preprocessChanges, "; ") \o "; " \o changesText
                     ELSE changesText
                ELSE IF Len(preprocessChanges) > 0
                     THEN Join(preprocessChanges, "; ")
                     ELSE "No speaker attribution errors found"]
    ELSE [transcript |-> fullResponse,
          summary |-> IF Len(preprocessChanges) > 0
                      THEN Join(preprocessChanges, "; ")
                      ELSE "Verified speaker attributions and corrected any misplaced labels"]

\* The split of /api/check-company-names.
CompanySplit(fullResponse) ==
    IF Includes(fullResponse, ChangesMarker)
    THEN LET changesText == Trim(Parts1(fullResponse))
         IN  [transcript |-> Trim(Parts0(fullResponse)),
              summary |-> IF changesText # "" /\ changesText # "All company names correct"
                          THEN changesText
                          ELSE "All company names correct"]
    ELSE [transcript |-> fullResponse, summary |-> "Verified analyst firm names"]

(***************************************************************************)
(* State.                                                                  *)
(*   apiKey    process.env.OPENAI_API_KEY is set to a non-empty value       *)
(*   calls     the HTTP requests to the four POST routes, one record each:  *)
(*             "sent" (on its way to the handler), "awaiting" (the handler  *)
(*             is suspended at the provider call), "settled" (the provider  *)
(*             promise has a value or an error), "answered" (the response   *)
(*             is on its way back), "free" (no such request)                *)
(*   the page: rawTranscript, cleanedTranscriptText, totalTokensUsed,       *)
(*             hasDisclaimers, outputArea, errorText, changeLogContent,     *)
(*             disabled and display of its elements, jobs (one closure of   *)
(*             pollJobStatus each), clicks (clicks made so far)             *)
(*   ppInput, ppOutput: argument and result of preprocessMissingLabels     *)
(*             when it is studied on its own                                *)
(***************************************************************************)
VARIABLES apiKey, calls,
          rawTranscript, cleanedTranscriptText, totalTokensUsed, hasDisclaimers,
          outputArea, errorText, changeLogContent, disabled, display, jobs, clicks,
          ppInput, ppOutput

serverVars == <<apiKey, calls>>
pageVars == <<rawTranscript, cleanedTranscriptText, totalTokensUsed, hasDisclaimers,
              outputArea, errorText, changeLogContent, disabled, display, jobs, clicks>>
ppVars == <<ppInput, ppOutput>>
vars == <<serverVars, pageVars, ppVars>>

MaxCalls == 3
CallIds == 1..MaxCalls

Routes == {"/api/process", "/api/segment", "/api/verify-speakers", "/api/check-company-names"}

NoBody == [present |-> FALSE, text |-> ""]
Body(text) == [present |-> TRUE, text |-> text]
NoOutcome == [kind |-> "none", content |-> "", tokens |-> 0, message |-> ""]
Completion(content, tokens) ==
    [kind |-> "completion", content |-> content, tokens |-> tokens, message |-> ""]
ProviderError(message) ==
    [kind |-> "error", content |-> "", tokens |-> 0, message |-> message]
NoResponse ==
    [status |-> 0, error |-> "", transcript |-> "", tokens_used |-> 0, changes_summary |-> ""]
ErrorResponse(status, error) == [NoResponse EXCEPT !.status = status, !.error = error]
Success(transcript, tokens, summary) ==
    [status |-> 200, error |-> "", transcript |-> transcript, tokens_used |-> tokens,
     changes_summary |-> summary]

FreeCall ==
    [pc |-> "free", route |-> "", origin |-> "", body |-> NoBody, transcript |-> "",
     preprocessChanges |-> <<>>, providerCalls |-> 0, outcome |-> NoOutcome,
     fullResponse |-> "", response |-> NoResponse, responsesSent |-> 0]

InFlight == {c \in CallIds : calls[c].pc # "free"}
FreeSlot == CHOOSE c \in CallIds : calls[c].pc = "free" /\ \A d \in 1..(c - 1) : calls[d].pc # "free"

\* fetch(route, {method: 'POST', body: JSON.stringify(body)})
Fetch(origin, route, body) ==
    /\ \E c \in CallIds : calls[c].pc = "free"
    /\ calls' = [calls EXCEPT ![FreeSlot] =
                    [FreeCall EXCEPT !.pc = "sent", !.route = route, !.origin = origin,
                                     !.body = body]]

FailureMessage(route) ==
    CASE route = "/api/process" -> "Failed to process transcript"
      [] route = "/api/segment" -> "Failed to segment transcript"
      [] route = "/api/verify-speakers" -> "Failed to verify speakers"
      [] OTHER -> "Failed to check company names"

\* Faulty checks, made in the other order.
EarlyReturn_KeyFirst(body, key) ==
    IF ~key THEN ErrorResponse(500, "OpenAI API key not configured")
    ELSE IF ~body.present \/ body.text = "" THEN ErrorResponse(400, "No transcript provided")
    ELSE NoResponse

\* The two checks every handler makes before anything else; status 0 stands
\* for "no early return".
EarlyReturn(body, key) ==
    IF ~body.present \/ body.text = "" THEN ErrorResponse(400, "No transcript provided")
    ELSE IF ~key THEN ErrorResponse(500, "OpenAI API key not configured")
    ELSE NoResponse

\* res.json(...) and res.status(...).json(...): the handler sends a response.
Respond(call, response) ==
    [call EXCEPT !.pc = "answered", !.response = response, !.responsesSent = @ + 1]

\* A faulty handler, whose changes array outlives the request: the changes of
\* the requests handled so far come before its own.
HandlerStart_SharedChanges(c) ==
    /\ calls[c].pc = "sent"
    /\ LET call == calls[c]
           early == EarlyReturn(call.body, apiKey)
           others == {d \in CallIds \ {c} : calls[d].preprocessChanges # <<>>}
           changes == IF others = {} THEN <<>>
                      ELSE calls[CHOOSE d \in others : TRUE].preprocessChanges
       IN  IF early.status # 0
           THEN calls' = [calls EXCEPT ![c] = Respond(call, early)]
           ELSE IF call.route = "/api/verify-speakers"
           THEN \E preprocessResult \in {preprocessMissingLabels(call.body.text)} :
                    calls' = [calls EXCEPT ![c].pc = "awaiting",
                                 ![c].transcript = preprocessResult.transcript,
                                 ![c].preprocessChanges = changes \o preprocessResult.changes,
                                 ![c].providerCalls = @ + 1]
           ELSE calls' = [calls EXCEPT ![c].pc = "awaiting",
                             ![c].transcript = call.body.text,
                             ![c].providerCalls = @ + 1]
    /\ UNCHANGED <<apiKey, pageVars, ppVars>>

\* The handler from its entry to the provider call (or to its early return).
HandlerStart(c) ==
    /\ calls[c].pc = "sent"
    /\ LET call == calls[c]
           early == EarlyReturn(call.body, apiKey)
       IN  IF early.status # 0
           THEN calls' = [calls EXCEPT ![c] = Respond(call, early)]
           ELSE IF call.route = "/api/verify-speakers"
           THEN \E preprocessResult \in {preprocessMissingLabels(call.body.text)} :
                    calls' = [calls EXCEPT ![c].pc = "awaiting",
                                 ![c].transcript = preprocessResult.transcript,
                                 ![c].preprocessChanges = preprocessResult.changes,
                                 ![c].providerCalls = @ + 1]
           ELSE calls' = [calls EXCEPT ![c].pc = "awaiting",
                             ![c].transcript = call.body.text,
                             ![c].providerCalls = @ + 1]
    /\ UNCHANGED <<apiKey, pageVars, ppVars>>

\* openai.chat.completions.create(...) resolves or rejects.
ProviderSettles(c, outcomes) ==
    /\ calls[c].pc = "awaiting"
    /\ \E o \in outcomes : calls' = [calls EXCEPT ![c].pc = "settled", ![c].outcome = o]
    /\ UNCHANGED <<apiKey, pageVars, ppVars>>

\* A faulty catch block, which hides the provider's message.
CaughtMessage_Hidden(error, route) == FailureMessage(route)

\* catch (error): error.message || '<the failure message of the route>'
CaughtMessage(error, route) ==
    IF error.message # "" THEN error.message ELSE FailureMessage(route)

\* A faulty catch block, which calls the provider once more before giving up.
Catch_Retry(call) ==
    IF call.providerCalls < 2
    THEN [call EXCEPT !.pc = "awaiting", !.outcome = NoOutcome, !.providerCalls = @ + 1]
    ELSE Respond(call, ErrorResponse(500, CaughtMessage(call.outcome, call.route)))

\* catch (error) { res.status(500).json({ error: error.message || '...' }) }
Catch(call) ==
    Respond(call, ErrorResponse(500, CaughtMessage(call.outcome, call.route)))

\* The handler from the provider's answer to res.json, its catch block included.
HandlerResume(c) ==
    /\ calls[c].pc = "settled"
    /\ LET call == calls[c]
           o == call.outcome
       IN  IF o.kind = "error"
           THEN calls' = [calls EXCEPT ![c] = Catch(call)]
           ELSE \E fullResponse \in {StripFences(o.content)} :
                  \E r \in {CASE call.route = "/api/process" ->
                                   Success(BoldToHtml(fullResponse), o.tokens, "")
                              [] call.route = "/api/segment" ->
                                   Success(fullResponse, o.tokens, "")
                              [] call.route = "/api/verify-speakers" ->
                                   LET v == VerifySplit(fullResponse, call.preprocessChanges)
                                   IN  Success(v.transcript, o.tokens, v.summary)
                              [] OTHER ->
                                   LET v == CompanySplit(fullResponse)
                                   IN  Success(v.transcript, o.tokens, v.summary)} :
                     calls' = [calls EXCEPT
                                  ![c] = Respond([call EXCEPT !.fullResponse = fullResponse], r)]
    /\ UNCHANGED <<apiKey, pageVars, ppVars>>

\* A request of another HTTP client than the page, and the delivery of its
\* response.
HttpRequest(limit, bodies) ==
    /\ Cardinality(InFlight) < limit
    /\ \E route \in Routes, body \in bodies : Fetch("other", route, body)
    /\ UNCHANGED <<apiKey, pageVars, ppVars>>

ResponseDelivered(c) ==
    /\ calls[c].pc = "answered"
    /\ calls[c].origin = "other"
    /\ calls' = [calls EXCEPT ![c] = FreeCall]
    /\ UNCHANGED <<apiKey, pageVars, ppVars>>

(***************************************************************************)
(* The page (public/script.js).  index.html is not among the sources: the  *)
(* page starts as the clear handler leaves it, every button enabled.       *)
(***************************************************************************)
maxAttempts == 300

CleanChanges ==
    <<"Removed standalone \"0\" numbers after speaker labels",
      "Applied bold formatting to speaker names",
      "Converted analyst labels to company-only format (e.g., \"Goldman Sachs Analyst\")",
      "Fixed obvious analyst firm name misspellings",
      "Standardized speaker label format">>

Placeholder == "<p class=\"placeholder-text\">Cleaned transcript will appear here...</p>"
ActionButtons == {"verifySpeakersBtn", "segmentBtn", "addDisclaimersBtn", "copyBtn", "downloadBtn"}
Elements == ActionButtons \cup {"stats", "changeLog", "errorMsg", "progressContainer"}
Buttons == {"processBtn", "verifySpeakersBtn", "segmentBtn", "addDisclaimersBtn"}

\* text.replace(/\n/g, '<br>')
NlToBr(text) == ReplaceAll(<<Lit("\n")>>, text, 1, FALSE, "<br>", FALSE, "")

\* addChangeLogEntry(title, changes): a string is one paragraph, an array a list
Entry(title, changes) == [title |-> title, changes |-> changes]

PollJob(data) ==
    [data |-> data, attempts |-> 0, active |-> TRUE, pending |-> 0, settled |-> FALSE]

TypeTranscript(texts) ==
    /\ \E t \in texts : t # rawTranscript /\ rawTranscript' = t
    /\ UNCHANGED <<serverVars, ppVars, cleanedTranscriptText, totalTokensUsed, hasDisclaimers,
                   outputArea, errorText, changeLogContent, disabled, display, jobs, clicks>>

\* processBtn click, up to the fetch.
ClickProcess(maxClicks) ==
    /\ ~disabled["processBtn"]
    /\ clicks < maxClicks
    /\ clicks' = clicks + 1
    /\ IF Trim(rawTranscript) = ""
       THEN /\ errorText' = "Please paste a transcript first."
            /\ display' = [display EXCEPT !["errorMsg"] = TRUE]
            /\ UNCHANGED <<calls, disabled>>
       ELSE /\ disabled' = [disabled EXCEPT !["processBtn"] = TRUE]
            /\ display' = [display EXCEPT !["errorMsg"] = FALSE, !["progressContainer"] = TRUE]
            /\ Fetch("page", "/api/process", Body(Trim(rawTranscript)))
            /\ UNCHANGED errorText
    /\ UNCHANGED <<apiKey, ppVars, rawTranscript, cleanedTranscriptText, totalTokensUsed,
                   hasDisclaimers, outputArea, changeLogContent, jobs>>

\* processBtn click handler from the response of the POST: its catch block, or
\* the call of pollJobStatus, which starts the interval.
ProcessResponse(c) ==
    /\ calls[c].pc = "answered"
    /\ calls[c].origin = "page"
    /\ calls[c].route = "/api/process"
    /\ calls' = [calls EXCEPT ![c] = FreeCall]
    /\ LET data == calls[c].response
       IN  IF data.status # 200
           THEN /\ errorText' = "Error: " \o (IF data.error # "" THEN data.error
                                              ELSE "Processing failed")
                /\ display' = [display EXCEPT !["progressContainer"] = FALSE,
                                              !["errorMsg"] = TRUE]
                /\ disabled' = [disabled EXCEPT !["processBtn"] = FALSE]
                /\ UNCHANGED jobs
           ELSE /\ jobs' = Append(jobs, PollJob(data))
                /\ UNCHANGED <<errorText, display, disabled>>
    /\ UNCHANGED <<apiKey, ppVars, rawTranscript, cleanedTranscriptText, totalTokensUsed,
                   hasDisclaimers, outputArea, changeLogContent, clicks>>

\* One firing of the interval of pollJobStatus: attempts++ and the fetch of
\* the status.
PollTick(j, maxTicks, maxPending) ==
    /\ jobs[j].active
    /\ jobs[j].attempts < maxTicks
    /\ jobs[j].pending < maxPending
    /\ jobs' = [jobs EXCEPT ![j].attempts = @ + 1, ![j].pending = @ + 1]
    /\ UNCHANGED <<serverVars, ppVars, rawTranscript, cleanedTranscriptText, totalTokensUsed,
                   hasDisclaimers, outputArea, errorText, changeLogContent, disabled,
                   display, clicks>>

\* What a fetch of /api/process/<jobId>/status can bring back: a JSON body with
\* a status, or a failure of the fetch or of response.json() (throws # "").
StatusBody(status, text, tokens, error) ==
    [status |-> status, cleaned_transcript |-> text, tokens_used |-> tokens,
     error |-> error, throws |-> ""]
StatusThrows(message) ==
    [status |-> "", cleaned_transcript |-> "", tokens_used |-> 0, error |-> "",
     throws |-> message]

\* A faulty test, which never gives up.
TimedOut_Never(attempts) == FALSE

\* if (attempts >= maxAttempts), at the end of the interval callback.
TimedOut(attempts) == attempts >= maxAttempts

\* The interval callback of pollJobStatus from the answer of its fetch to its
\* end, followed by the catch block of the click handler when this callback
\* is the one that rejects the promise the handler awaits.
PollReply(j, replies) ==
    /\ jobs[j].pending > 0
    /\ \E data \in replies :
        LET job == jobs[j]
            threw == data.throws # ""
            completed == ~threw /\ data.status = "completed"
            failed == ~threw /\ data.status = "failed"
            progress == ~threw /\ data.status \in {"processing", "pending"}
            timedOut == TimedOut(job.attempts)
            stops == completed \/ failed \/ threw \/ timedOut
            rejects == ~job.settled /\ ~completed /\ (failed \/ threw \/ timedOut)
            reason == IF failed THEN (IF data.error # "" THEN data.error ELSE "Processing failed")
                      ELSE IF threw THEN data.throws
                      ELSE "Processing timed out"
        IN  /\ jobs' = [jobs EXCEPT ![j].pending = @ - 1,
                                    ![j].active = @ /\ ~stops,
                                    ![j].settled = @ \/ completed \/ rejects]
            /\ IF completed
               THEN /\ cleanedTranscriptText' = data.cleaned_transcript
                    /\ outputArea' = NlToBr(data.cleaned_transcript)
                    /\ totalTokensUsed' = data.tokens_used
                    /\ changeLogContent' =
                           Append(changeLogContent, Entry("Clean Transcript", CleanChanges))
               ELSE UNCHANGED <<cleanedTranscriptText, outputArea, totalTokensUsed,
                                changeLogContent>>
            /\ errorText' =
                   IF rejects THEN "Error: " \o reason
                   ELSE IF timedOut THEN "Processing timed out. Please try again."
                   ELSE IF failed
                        THEN "Processing failed: " \o
                                 (IF data.error # "" THEN data.error ELSE "Unknown error")
                   ELSE IF threw THEN "Error checking job status: " \o data.throws
                   ELSE errorText
            /\ display' =
                   [e \in Elements |->
                      IF e = "progressContainer"
                          THEN IF stops THEN FALSE ELSE (progress \/ display[e])
                      ELSE IF e = "errorMsg" THEN (failed \/ threw \/ timedOut \/ display[e])
                      ELSE IF completed /\ e \in ActionButtons \cup {"stats", "changeLog"}
                          THEN TRUE
                      ELSE display[e]]
            /\ disabled' = [disabled EXCEPT !["processBtn"] = @ /\ ~stops]
    /\ UNCHANGED <<serverVars, ppVars, rawTranscript, hasDisclaimers, clicks>>

\* A faulty handler, which keeps the button busy but never posts the text.
ClickPass_NoFetch(btn, route, nothing, maxClicks) ==
    /\ display[btn]
    /\ ~disabled[btn]
    /\ clicks < maxClicks
    /\ clicks' = clicks + 1
    /\ IF cleanedTranscriptText = ""
       THEN /\ errorText' = nothing
            /\ display' = [display EXCEPT !["errorMsg"] = TRUE]
            /\ UNCHANGED disabled
       ELSE /\ disabled' = [disabled EXCEPT ![btn] = TRUE]
            /\ display' = [display EXCEPT !["errorMsg"] = FALSE]
            /\ UNCHANGED errorText
    /\ UNCHANGED <<serverVars, ppVars, rawTranscript, cleanedTranscriptText, totalTokensUsed,
                   hasDisclaimers, outputArea, changeLogContent, jobs>>

\* verifySpeakersBtn and segmentBtn click, up to the fetch (the confirm() of
\* the verify handler needs more than 40000 characters, which no text here has).
ClickPass(btn, route, nothing, maxClicks) ==
    /\ display[btn]
    /\ ~disabled[btn]
    /\ clicks < maxClicks
    /\ clicks' = clicks + 1
    /\ IF cleanedTranscriptText = ""
       THEN /\ errorText' = nothing
            /\ display' = [display EXCEPT !["errorMsg"] = TRUE]
            /\ UNCHANGED <<calls, disabled>>
       ELSE /\ disabled' = [disabled EXCEPT ![btn] = TRUE]
            /\ display' = [display EXCEPT !["errorMsg"] = FALSE]
            /\ Fetch("page", route, Body(cleanedTranscriptText))
            /\ UNCHANGED errorText
    /\ UNCHANGED <<apiKey, ppVars, rawTranscript, cleanedTranscriptText, totalTokensUsed,
                   hasDisclaimers, outputArea, changeLogContent, jobs>>

ClickVerify(maxClicks) ==
    ClickPass("verifySpeakersBtn", "/api/verify-speakers", "No transcript to verify.", maxClicks)
ClickSegment(maxClicks) ==
    ClickPass("segmentBtn", "/api/segment", "No transcript to segment.", maxClicks)

\* The two handlers without their finally block: the button is enabled again
\* at the end of the try block only.
PassResponse_NoFinally(c, btn, route, fallback, logs) ==
    /\ calls[c].pc = "answered"
    /\ calls[c].origin = "page"
    /\ calls[c].route = route
    /\ calls' = [calls EXCEPT ![c] = FreeCall]
    /\ LET data == calls[c].response
       IN  IF data.status # 200
           THEN /\ errorText' = "Error: " \o (IF data.error # "" THEN data.error ELSE fallback)
                /\ display' = [display EXCEPT !["errorMsg"] = TRUE]
                /\ UNCHANGED <<cleanedTranscriptText, outputArea, totalTokensUsed,
                               changeLogContent>>
           ELSE /\ cleanedTranscriptText' = data.transcript
                /\ outputArea' = NlToBr(data.transcript)
                /\ totalTokensUsed' = totalTokensUsed + data.tokens_used
                /\ IF logs
                   THEN /\ changeLogContent' =
                              Append(changeLogContent,
                                     Entry("Verify Speakers",
                                           IF data.changes_summary # ""
                                           THEN <<data.changes_summary>>
                                           ELSE <<"Verified speaker attributions and corrected any misplaced labels">>))
                        /\ display' = [display EXCEPT !["changeLog"] = TRUE]
                   ELSE UNCHANGED <<changeLogContent, display>>
                /\ UNCHANGED errorText
    /\ disabled' = IF calls[c].response.status # 200
                   THEN disabled
                   ELSE [disabled EXCEPT ![btn] = FALSE]
    /\ UNCHANGED <<apiKey, ppVars, rawTranscript, hasDisclaimers, jobs, clicks>>

\* The rest of the two handlers, from the response to the finally block.
PassResponse(c, btn, route, fallback, logs) ==
    /\ calls[c].pc = "answered"
    /\ calls[c].origin = "page"
    /\ calls[c].route = route
    /\ calls' = [calls EXCEPT ![c] = FreeCall]
    /\ LET data == calls[c].response
       IN  IF data.status # 200
           THEN /\ errorText' = "Error: " \o (IF data.error # "" THEN data.error ELSE fallback)
                /\ display' = [display EXCEPT !["errorMsg"] = TRUE]
                /\ UNCHANGED <<cleanedTranscriptText, outputArea, totalTokensUsed,
                               changeLogContent>>
           ELSE /\ cleanedTranscriptText' = data.transcript
                /\ outputArea' = NlToBr(data.transcript)
                /\ totalTokensUsed' = totalTokensUsed + data.tokens_used
                /\ IF logs
                   THEN /\ changeLogContent' =
                              Append(changeLogContent,
                                     Entry("Verify Speakers",
                                           IF data.changes_summary # ""
                                           THEN <<data.changes_summary>>
                                           ELSE <<"Verified speaker attributions and corrected any misplaced labels">>))
                        /\ display' = [display EXCEPT !["changeLog"] = TRUE]
                   ELSE UNCHANGED <<changeLogContent, display>>
                /\ UNCHANGED errorText
    /\ disabled' = [disabled EXCEPT ![btn] = FALSE]
    /\ UNCHANGED <<apiKey, ppVars, rawTranscript, hasDisclaimers, jobs, clicks>>

VerifyResponse(c) ==
    PassResponse(c, "verifySpeakersBtn", "/api/verify-speakers", "Speaker verification failed", TRUE)
SegmentResponse(c) ==
    PassResponse(c, "segmentBtn", "/api/segment", "Segmentation failed", FALSE)

\* The fetch of a click handler rejects (the server cannot be reached): the
\* catch block of the handler, and its finally block where it has one.
FetchFails(c, message) ==
    /\ calls[c].pc = "sent"
    /\ calls[c].origin = "page"
    /\ calls' = [calls EXCEPT ![c] = FreeCall]
    /\ errorText' = "Error: " \o message
    /\ display' = [display EXCEPT !["errorMsg"] = TRUE,
                     !["progressContainer"] = @ /\ calls[c].route # "/api/process"]
    /\ disabled' = [disabled EXCEPT
                      ![CASE calls[c].route = "/api/process" -> "processBtn"
                          [] calls[c].route = "/api/verify-speakers" -> "verifySpeakersBtn"
                          [] OTHER -> "segmentBtn"] = FALSE]
    /\ UNCHANGED <<apiKey, ppVars, rawTranscript, cleanedTranscriptText, totalTokensUsed,
                   hasDisclaimers, outputArea, changeLogContent, jobs, clicks>>

topDisclaimer ==
    "<div class=\"disclaimer\">This transcript is brought to you by Benzinga APIs. For real-time access to our entire catalog, <a href=\"https://www.benzinga.com/apis/\" target=\"_blank\">please visit Benzinga APIs</a> for a consultation.</div>"
bottomDisclaimer ==
    "<div class=\"disclaimer\">This transcript is to be used for informational purposes only. Though Benzinga believes the content to be substantially and directionally correct, Benzinga cannot and does not guarantee 100% accuracy of the content herein. Audio quality, accents, and technical issues could impact the exactness and we advise you to refer to source audio files before making any decisions based upon the above.</div>"
topDisclaimerHTML ==
    "<p><em>This transcript is brought to you by Benzinga APIs. For real-time access to our entire catalog, <a href=\"https://www.benzinga.com/apis/\">please visit Benzinga APIs</a> for a consultation.</em></p>\n\n"
bottomDisclaimerHTML ==
    "\n\n<p><em>This transcript is to be used for informational purposes only. Though Benzinga believes the content to be substantially and directionally correct, Benzinga cannot and does not guarantee 100% accuracy of the content herein. Audio quality, accents, and technical issues could impact the exactness and we advise you to refer to source audio files before making any decisions based upon the above.</em></p>"

ClickDisclaimers(maxClicks) ==
    /\ display["addDisclaimersBtn"]
    /\ ~disabled["addDisclaimersBtn"]
    /\ clicks < maxClicks
    /\ clicks' = clicks + 1
    /\ IF cleanedTranscriptText = "" \/ hasDisclaimers
       THEN /\ errorText' = IF cleanedTranscriptText = ""
                            THEN "No transcript to add disclaimers to."
                            ELSE "Disclaimers already added."
            /\ display' = [display EXCEPT !["errorMsg"] = TRUE]
            /\ UNCHANGED <<outputArea, cleanedTranscriptText, hasDisclaimers, disabled>>
       ELSE /\ outputArea' = topDisclaimer \o "<br>" \o NlToBr(cleanedTranscriptText)
                               \o "<br>" \o bottomDisclaimer
            /\ cleanedTranscriptText' =
                   topDisclaimerHTML \o cleanedTranscriptText \o bottomDisclaimerHTML
            /\ hasDisclaimers' = TRUE
            /\ disabled' = [disabled EXCEPT !["addDisclaimersBtn"] = TRUE]
            /\ UNCHANGED <<errorText, display>>
    /\ UNCHANGED <<serverVars, ppVars, rawTranscript, totalTokensUsed, changeLogContent, jobs>>

ClickClear(maxClicks) ==
    /\ clicks < maxClicks
    /\ clicks' = clicks + 1
    /\ rawTranscript' = ""
    /\ outputArea' = Placeholder
    /\ cleanedTranscriptText' = ""
    /\ totalTokensUsed' = 0
    /\ hasDisclaimers' = FALSE
    /\ display' = [e \in Elements |-> FALSE]
    /\ disabled' = [disabled EXCEPT !["addDisclaimersBtn"] = FALSE]
    /\ changeLogContent' = <<>>
    /\ UNCHANGED <<serverVars, ppVars, errorText, jobs>>

\* copyBtn click: navigator.clipboard.writeText may reject.  (downloadBtn
\* builds a file from cleanedTranscriptText and changes no state.)
ClickCopy(maxClicks, failures) ==
    /\ display["copyBtn"]
    /\ clicks < maxClicks
    /\ clicks' = clicks + 1
    /\ \/ /\ cleanedTranscriptText = ""
          /\ errorText' = "No transcript to copy."
          /\ display' = [display EXCEPT !["errorMsg"] = TRUE]
       \/ /\ cleanedTranscriptText # ""
          /\ \E message \in failures :
                errorText' = "Failed to copy to clipboard. Error: " \o message
          /\ display' = [display EXCEPT !["errorMsg"] = TRUE]
       \/ /\ cleanedTranscriptText # ""
          /\ UNCHANGED <<errorText, display>>
    /\ UNCHANGED <<serverVars, ppVars, rawTranscript, cleanedTranscriptText, totalTokensUsed,
                   hasDisclaimers, outputArea, changeLogContent, disabled, jobs>>

(***************************************************************************)
(* preprocessMissingLabels on its own: hand-off transcripts put together   *)
(* from their parts, so that a property can name the parts.                *)
(***************************************************************************)
MaxOver == 1

RECURSIVE Filler(_)
Filler(n) ==
    IF n = 0 THEN ""
    ELSE IF n % 2 = 0 THEN LET h == Filler(n \div 2) IN h \o h
    ELSE "a" \o Filler(n - 1)

TextOfLength(n) == SubSeq("Thank you. " \o Filler(n), 1, n)
TextLengths == {1, 10} \cup ((MaxNextText - MaxOver)..(MaxNextText + MaxOver))
PlainTexts == {TextOfLength(n) : n \in TextLengths}
LabelledTexts == {"<strong>Bob</strong>\n\nHi", "BOB()\n\nHi"}
OperatorLabels == {"<strong>Operator</strong>", "Operator", "OPERATOR()"}

Shape(pre, op, gap, lead, phrase, name, term, go, text, trail) ==
    [pre |-> pre, op |-> op, gap |-> gap, lead |-> lead, phrase |-> phrase, name |-> name,
     term |-> term, go |-> go, text |-> text, trail |-> trail]

\* Everything up to the text that follows the hand-off, and the whole input.
HeadOf(sh) ==
    sh.pre \o sh.op \o sh.gap \o sh.lead \o sh.phrase \o " " \o sh.name \o sh.term
        \o " " \o sh.go \o "\n\n"
Render(sh) == HeadOf(sh) \o sh.text \o sh.trail

SyntaxShapes ==
    {Shape("", op, gap, lead, phrase, "Bob", term, go, "Thank you.", "") :
        op \in OperatorLabels \cup {"Moderator"},
        gap \in {"\n\n", "\n0\n"},
        lead \in {"", "Our CEO is here. "},
        phrase \in {"turn the call over to", "I will now turn the call over to"},
        term \in {".", ","},
        go \in {"Please go ahead", "Please proceed.", "Go ahead Sir."}}

TextShapes ==
    {Shape(pre, "<strong>Operator</strong>", "\n\n", "", "turn the call over to", name, ".",
           "Please go ahead", text, trail) :
        pre \in {"", "<strong>Al</strong>\n\nHi\n\n"},
        name \in {"Bob", "Tony  Han", "Dr. Tony Han"},
        text \in PlainTexts \cup LabelledTexts,
        trail \in {"", "\n", "\n\n<strong>Al</strong>\n\nOk",
                   "\n\n<strong>Operator</strong>\n0\nOur next question is from Jo Bo with Citi. Please proceed.\n\nGreat, thanks",
                   "\n\nOperator\n\nI will turn the call over to Al, Go ahead\n\nYo"}}

\* The introduction the comment above handoffPattern gives as its example.
DoctorShapes ==
    {Shape("", op, "\n\n", lead, "I will now turn the call over to", "Dr. Tony Han", ".",
           "Please go ahead Sir.", "Thank you.", trail) :
        op \in {"<strong>Operator</strong>", "Operator"},
        lead \in {"", "Our CEO is here. "},
        trail \in {"", "\n\n<strong>Al</strong>\n\nOk"}}

AnalystShapes ==
    {Shape("", "<strong>Operator</strong>", "\n0\n", "", "Our next question is from Jo Bo with",
           "Citi", ".", "Please proceed.", text, trail) :
        text \in {"Great, thanks"} \cup LabelledTexts,
        trail \in {"", "\n", "\n\n<strong>Al</strong>\n\nOk"}}

PreInputs == SyntaxShapes \cup TextShapes \cup DoctorShapes \cup AnalystShapes
NoShape == Shape("", "", "", "", "", "", "", "", "", "")
NotRun == [done |-> FALSE, transcript |-> "", changes |-> <<>>]

Preprocess ==
    /\ ~ppOutput.done
    /\ \E r \in {preprocessMissingLabels(Render(ppInput))} :
          ppOutput' = [done |-> TRUE, transcript |-> r.transcript, changes |-> r.changes]
    /\ UNCHANGED <<ppInput, serverVars, pageVars>>

(***************************************************************************)
(* Specifications.                                                         *)
(***************************************************************************)
MaxClicks == 3
MaxTicks == 1
MaxPending == 2
MaxPieces == 3
MaxConcurrent == 2
MaxPolls == 2

RawInputs == {" \n", "Bob Lee(CEO)\n0\nHi"}
Outcomes ==
    {Completion("**Bob Lee, CEO**\nHi", 5), Completion("", 0),
     ProviderError("Rate limit exceeded"), ProviderError("")}
StatusReplies ==
    {StatusBody("completed", "<strong>Bob Lee, CEO</strong>\nHi", 7, ""),
     StatusBody("failed", "", 0, "Job failed"), StatusBody("failed", "", 0, ""),
     StatusBody("processing", "", 0, ""), StatusBody("pending", "", 0, ""),
     StatusBody("unknown", "", 0, ""),
     StatusThrows("Unexpected token < in JSON at position 0")}

\* Completions put together from the pieces the post-processing looks for.
Pieces ==
    {Fence, Fence \o "html", "\n", "T", "**", "****", "*", ChangesMarker, "[Corrected transcript]",
     "No errors found"}
RECURSIVE Texts(_)
Texts(n) == IF n = 0 THEN {""} ELSE LET t == Texts(n - 1) IN t \cup {x \o y : x \in t, y \in Pieces}
RichOutcomes == {Completion(t, 5) : t \in Texts(MaxPieces)} \cup {ProviderError("Rate limit exceeded"), ProviderError("")}
TwoHandoffs ==
    "Operator\n\nturn the call over to Bob. Go ahead\n\nHi\n\n"
        \o "Operator\n\nquestion from Jo with Citi. Go ahead\n\nYo"
Bodies ==
    {NoBody, Body(""), Body("T"),
     Body("Operator\n\nturn the call over to Bob. Go ahead\n\nHi")}

InitServer == /\ apiKey \in BOOLEAN
              /\ calls = [c \in CallIds |-> FreeCall]
InitPage == /\ rawTranscript = ""
            /\ cleanedTranscriptText = ""
            /\ totalTokensUsed = 0
            /\ hasDisclaimers = FALSE
            /\ outputArea = Placeholder
            /\ errorText = ""
            /\ changeLogContent = <<>>
            /\ disabled = [b \in Buttons |-> FALSE]
            /\ display = [e \in Elements |-> FALSE]
            /\ jobs = <<>>
            /\ clicks = 0
Init == InitServer /\ InitPage /\ ppInput = NoShape /\ ppOutput = NotRun

Server(outcomes) ==
    \E c \in CallIds : HandlerStart(c) \/ ProviderSettles(c, outcomes) \/ HandlerResume(c)

\* The page, the server, the provider and the status endpoint.
Next ==
    \/ TypeTranscript(RawInputs)
    \/ ClickProcess(MaxClicks)
    \/ ClickVerify(MaxClicks)
    \/ ClickSegment(MaxClicks)
    \/ ClickDisclaimers(MaxClicks)
    \/ ClickClear(MaxClicks)
    \/ ClickCopy(MaxClicks, {"Write permission denied."})
    \/ Server(Outcomes)
    \/ \E c \in CallIds : ProcessResponse(c) \/ VerifyResponse(c) \/ SegmentResponse(c)
                            \/ FetchFails(c, "Failed to fetch")
    \/ \E j \in DOMAIN jobs : PollTick(j, MaxTicks, MaxTicks) \/ PollReply(j, StatusReplies)
Spec == Init /\ [][Next]_vars

\* One Clean click, polled to its end.
PollNext ==
    \/ TypeTranscript(RawInputs)
    \/ ClickProcess(1)
    \/ Server(Outcomes)
    \/ \E c \in CallIds : ProcessResponse(c) \/ FetchFails(c, "Failed to fetch")
    \/ \E j \in DOMAIN jobs :
          PollTick(j, maxAttempts + MaxPending, MaxPending) \/ PollReply(j, StatusReplies)
PollSpec == Init /\ [][PollNext]_vars

\* The same, when every request is answered (the handler runs, the provider
\* settles, the response and the status answers are delivered) and the
\* interval keeps firing until it is cleared.
FairPollSpec ==
    /\ PollSpec
    /\ WF_vars(Server(Outcomes))
    /\ WF_vars(\E c \in CallIds : ProcessResponse(c))
    /\ WF_vars(\E j \in DOMAIN jobs : PollTick(j, maxAttempts + MaxPending, MaxPending))
    /\ WF_vars(\E j \in DOMAIN jobs : PollReply(j, StatusReplies))

\* One Clean click whose status requests are all answered with an error
\* response: a status other than 2xx and a JSON body with an error message.
StatusErrors == {StatusBody("", "", 0, "Job not found")}
ErrorPollNext ==
    \/ TypeTranscript(RawInputs)
    \/ ClickProcess(1)
    \/ Server(Outcomes)
    \/ \E c \in CallIds : ProcessResponse(c) \/ FetchFails(c, "Failed to fetch")
    \/ \E j \in DOMAIN jobs :
          PollTick(j, maxAttempts + MaxPending, MaxPending) \/ PollReply(j, StatusErrors)
ErrorPollSpec == Init /\ [][ErrorPollNext]_vars

\* Clean clicked again and again, each job polled a few times, the answers
\* of the status endpoint arriving late.
JobsNext ==
    \/ TypeTranscript(RawInputs)
    \/ ClickProcess(MaxClicks)
    \/ Server(Outcomes)
    \/ \E c \in CallIds : ProcessResponse(c) \/ FetchFails(c, "Failed to fetch")
    \/ \E j \in DOMAIN jobs :
          PollTick(j, MaxPolls, MaxPending) \/ PollReply(j, StatusReplies)
JobsSpec == Init /\ [][JobsNext]_vars

\* The server under the requests of any HTTP client, one at a time.
ServerNext ==
    \/ HttpRequest(1, Bodies)
    \/ Server(RichOutcomes)
    \/ \E c \in CallIds : ResponseDelivered(c)
ServerSpec == Init /\ [][ServerNext]_vars

\* The server under requests that overlap: a response stays with its request
\* until the client has read it, so that the responses of two requests, handled
\* one after the other or interleaved, can be compared.
HandoffBodies == {Body(""), Body("Operator\n\nturn the call over to Bob. Go ahead\n\nHi")}
MarkedOutcomes == {Completion("T" \o ChangesMarker \o "Moved a label", 5), ProviderError("")}
ConcurrentNext ==
    \/ HttpRequest(MaxConcurrent, HandoffBodies)
    \/ Server(MarkedOutcomes)
    \/ \E c \in CallIds : ResponseDelivered(c)
ConcurrentSpec == Init /\ [][ConcurrentNext]_vars

\* The server under requests whose transcripts get no, one or two labels from
\* the preprocessing, the provider answering in each of the ways the split of
\* the response tells apart.
SplitBodies ==
    {Body("T"), Body("Operator\n\nturn the call over to Bob. Go ahead\n\nHi"),
     Body(TwoHandoffs)}
SplitOutcomes ==
    {Completion(t, 5) :
        t \in {"T", "",
               "T" \o ChangesMarker \o "Moved a label",
               "T" \o ChangesMarker \o "No errors found",
               "T" \o ChangesMarker \o "\nNo speaker attribution errors found.\n",
               "T" \o ChangesMarker,
               Fence \o "\n[Corrected transcript]\nT\n" \o ChangesMarker \o "\n- Moved a label\n"
                   \o ChangesMarker \o "more\n" \o Fence}}
      \cup {ProviderError("Rate limit exceeded")}
SplitNext ==
    \/ HttpRequest(1, SplitBodies)
    \/ Server(SplitOutcomes)
    \/ \E c \in CallIds : ResponseDelivered(c)
SplitSpec == Init /\ [][SplitNext]_vars

\* preprocessMissingLabels applied to one input.
PreInit == InitServer /\ apiKey /\ InitPage /\ ppInput \in PreInputs /\ ppOutput = NotRun
PreSpec == PreInit /\ [][Preprocess]_vars
(***************************************************************************)
(* Properties of the handlers, checked under ServerSpec.                   *)
(***************************************************************************)
Answered == {c \in CallIds : calls[c].pc = "answered"}
Succeeded == {c \in Answered : calls[c].response.status = 200}

\* C5: on each of the four routes a request whose transcript is missing or
\* empty is answered 400 'No transcript provided'; otherwise, when
\* OPENAI_API_KEY is unset, 500 'OpenAI API key not configured'; and in both
\* cases the handler never reaches the provider call.
C5_RejectedBeforeProvider ==
    \A c \in InFlight :
        LET call == calls[c]
            noTranscript == ~call.body.present \/ call.body.text = ""
        IN  (noTranscript \/ ~apiKey) =>
                /\ call.pc \in {"sent", "answered"}
                /\ call.providerCalls = 0
                /\ call.pc = "answered" =>
                      /\ call.response.status = IF noTranscript THEN 400 ELSE 500
                      /\ call.response.error = IF noTranscript THEN "No transcript provided"
                                               ELSE "OpenAI API key not configured"

\* A request with a transcript has been turned down for want of the key.
C5_Witness ==
    \E c \in Answered :
        /\ calls[c].body.present /\ calls[c].body.text # ""
        /\ calls[c].route = "/api/check-company-names"
        /\ calls[c].response.status = 500
        /\ calls[c].providerCalls = 0

\* C8: the transcript field of a successful response of any of the four
\* routes neither begins nor ends with a code fence.
C8_NoFenceAtEnds ==
    \A c \in Succeeded :
        LET t == calls[c].response.transcript
        IN  Len(t) >= Len(Fence) =>
                /\ SubSeq(t, 1, Len(Fence)) # Fence
                /\ SubSeq(t, Len(t) - Len(Fence) + 1, Len(t)) # Fence

\* C9: the cleaned_transcript of /api/process contains no span **X** with X
\* a non-empty run of characters other than the asterisk.
C9_NoBoldSpanLeft ==
    \A c \in Succeeded :
        calls[c].route = "/api/process" =>
            LET t == calls[c].response.transcript
            IN  ~ \E i \in 1..Len(t), j \in 1..Len(t) :
                    /\ j >= i + 3
                    /\ j + 1 <= Len(t)
                    /\ SubSeq(t, i, i + 1) = "**"
                    /\ SubSeq(t, j, j + 1) = "**"
                    /\ \A k \in (i + 2)..(j - 1) : CharAt(t, k) # "*"

\* C10 as the specification words it: on /api/verify-speakers and
\* /api/check-company-names the transcript field is the trimmed text before
\* the first marker and has no marker in it, the summary comes from the text
\* after the marker, and without a marker the transcript field is the whole
\* fence-stripped response.
C10_TextBeforeMarker ==
    \A c \in Succeeded :
        calls[c].route \in {"/api/verify-speakers", "/api/check-company-names"} =>
            LET full == calls[c].fullResponse
                r == calls[c].response
            IN  IF Includes(full, ChangesMarker)
                THEN /\ r.transcript = Trim(Before(full, ChangesMarker))
                     /\ ~Includes(r.transcript, ChangesMarker)
                ELSE r.transcript = full

\* C10, amended: as above, except that /api/verify-speakers also removes a
\* leading '[Corrected transcript]' (in any letter case) and the whitespace
\* after it from the trimmed text before the marker; the summary ends with the
\* trimmed text between the first marker and the next one (or the end) when
\* that text is neither empty nor one of the "nothing found" phrases.
C10_MarkerSplit ==
    \A c \in Succeeded :
        calls[c].route \in {"/api/verify-speakers", "/api/check-company-names"} =>
            LET full == calls[c].fullResponse
                r == calls[c].response
                verify == calls[c].route = "/api/verify-speakers"
                before == Trim(Before(full, ChangesMarker))
                tag == "[corrected transcript]"
                tagged == /\ verify
                          /\ Len(before) >= Len(tag)
                          /\ \A i \in 1..Len(tag) : Fold(CharAt(before, i)) = CharAt(tag, i)
                cut == Len(before) - Len(r.transcript)
                after == Trim(Before(After(full, ChangesMarker), ChangesMarker))
                nothing == IF verify
                           THEN {"", "No speaker attribution errors found.", "No errors found"}
                           ELSE {"", "All company names correct"}
            IN  IF Includes(full, ChangesMarker)
                THEN /\ ~Includes(r.transcript, ChangesMarker)
                     /\ IF tagged
                        THEN /\ cut >= Len(tag)
                             /\ r.transcript = SubSeq(before, cut + 1, Len(before))
                             /\ \A i \in (Len(tag) + 1)..cut : IsSpace(CharAt(before, i))
                             /\ r.transcript # "" => ~IsSpace(CharAt(r.transcript, 1))
                        ELSE r.transcript = before
                     /\ after \notin nothing =>
                           /\ Len(r.changes_summary) >= Len(after)
                           /\ SubSeq(r.changes_summary,
                                     Len(r.changes_summary) - Len(after) + 1,
                                     Len(r.changes_summary)) = after
                ELSE r.transcript = full

\* /api/verify-speakers has removed the placeholder from the text before the
\* marker.
C10_Witness ==
    \E c \in Succeeded :
        /\ calls[c].route = "/api/verify-speakers"
        /\ calls[c].fullResponse = "[Corrected transcript]T" \o ChangesMarker
        /\ calls[c].response.transcript = "T"

\* C18: in a successful response of /api/verify-speakers changes_summary is
\* never empty, and when preprocessing inserted labels it begins with their
\* changes, in insertion order, joined by '; ': followed by '; ' and the
\* changes the response lists after the marker, or alone when the response
\* lists none ('No errors found', nothing) or has no marker.
C18_SummaryHasPreprocessChanges ==
    \A c \in Succeeded :
        calls[c].route = "/api/verify-speakers" =>
            LET changes == calls[c].preprocessChanges
                summary == calls[c].response.changes_summary
                full == calls[c].fullResponse
                joined == Join(changes, "; ")
                listed == Trim(Before(After(full, ChangesMarker), ChangesMarker))
            IN  /\ summary # ""
                /\ Len(changes) > 0 =>
                      IF /\ Includes(full, ChangesMarker)
                         /\ listed \notin {"", "No errors found",
                                           "No speaker attribution errors found."}
                      THEN summary = joined \o "; " \o listed
                      ELSE summary = joined

\* Preprocessing inserted two labels and the response had the marker with
\* 'No errors found' after it: the summary is the two changes.
C18_Witness ==
    \E c \in Succeeded :
        /\ calls[c].route = "/api/verify-speakers"
        /\ Len(calls[c].preprocessChanges) = 2
        /\ calls[c].fullResponse = "T" \o ChangesMarker \o "No errors found"
        /\ calls[c].response.changes_summary =
               "Added missing label for Bob after operator introduction; "
                 \o "Added missing label for Citi Analyst after operator introduction"

\* C11: every invocation of a handler calls the provider at most once and
\* sends exactly one response: none while it runs, one when it has ended, on
\* the early returns (no provider call), on success and in the catch block
\* (one provider call each).
C11_OneCallOneResponse ==
    \A c \in InFlight :
        LET call == calls[c]
            early == ~call.body.present \/ call.body.text = "" \/ ~apiKey
        IN  /\ call.providerCalls <= 1
            /\ call.responsesSent = IF call.pc = "answered" THEN 1 ELSE 0
            /\ call.pc \in {"awaiting", "settled"} => call.providerCalls = 1
            /\ call.pc = "answered" => call.providerCalls = IF early THEN 0 ELSE 1

\* A handler has ended in its catch block, after a provider call that failed.
C11_Witness ==
    \E c \in Answered :
        /\ calls[c].outcome.kind = "error"
        /\ calls[c].providerCalls = 1
        /\ calls[c].responsesSent = 1
        /\ calls[c].response.status = 500

\* C12: the response of a handler is determined by the route, the request
\* body, the API key and the provider's answer to it: two requests that agree
\* on these get the same response, whether one was handled before the other
\* or both at once.
C12_ResponseOfRequestAlone ==
    \A c \in Answered, d \in Answered :
        (/\ calls[c].route = calls[d].route
         /\ calls[c].body = calls[d].body
         /\ calls[c].outcome = calls[d].outcome) =>
            calls[c].response = calls[d].response

\* Two requests of /api/verify-speakers with the same hand-off transcript have
\* both been answered, each with the change of its own preprocessing.
C12_Witness ==
    \E c \in Succeeded, d \in Succeeded :
        /\ c # d
        /\ calls[c].route = "/api/verify-speakers"
        /\ calls[d].route = "/api/verify-speakers"
        /\ calls[c].body = calls[d].body
        /\ calls[c].outcome = calls[d].outcome
        /\ Len(calls[c].preprocessChanges) = 1
        /\ calls[c].response.changes_summary =
               calls[c].preprocessChanges[1] \o "; Moved a label"
(***************************************************************************)
(* Properties of preprocessMissingLabels, checked under PreSpec.           *)
(***************************************************************************)
\* C2: for an operator hand-off (an Operator label, a blank line, a text with
\* 'turn the call over to NAME' ended by '.' or ',' and one of the go-ahead
\* phrases, a blank line, a text that begins with no speaker label) the
\* output has a '<strong>NAME</strong>' label right before that text, and a
\* change is recorded, whatever the length of the text.  (Stated for a text
\* that ends the transcript or is followed by the next speaker label.)
C2_EveryHandoffLabelled ==
    LET sh == ppInput
        head == HeadOf(sh)
    IN  (/\ ppOutput.done
         /\ sh.op \in OperatorLabels
         /\ sh.name = "Bob"
         /\ sh.text \in PlainTexts
         /\ sh.trail \in {"", "\n\n<strong>Al</strong>\n\nOk"}) =>
            /\ Len(ppOutput.changes) >= 1
            /\ \E title \in {"", " (CEO)"} :
                  LET labelled == head \o "\n<strong>Bob</strong>" \o title \o "\n\n" \o sh.text
                  IN  Substring(ppOutput.transcript, 0, Len(labelled)) = labelled

\* C7: the output is the input with as many speaker-label lines inserted as
\* there are changes ("\n<strong>...</strong>...\n\n", on one line), so that
\* taking them out gives back the input; and an input with no Operator label
\* in it comes back unchanged, with no change recorded.
IsLabelLine(b) ==
    /\ Len(b) >= Len("\n<strong></strong>\n\n")
    /\ SubSeq(b, 1, 9) = "\n<strong>"
    /\ SubSeq(b, Len(b) - 1, Len(b)) = "\n\n"
    /\ Includes(SubSeq(b, 10, Len(b) - 2), "</strong>")
    /\ ~Includes(SubSeq(b, 10, Len(b) - 2), "\n")

RECURSIVE InsertedLabels(_, _, _)
InsertedLabels(in, out, k) ==
    IF k = 0 THEN in = out
    ELSE \E p \in 1..Len(out) :
            /\ Substring(out, p - 1, p + 8) = "\n<strong>"
            /\ Substring(out, 0, p - 1) = Substring(in, 0, p - 1)
            /\ \E q \in (p + 19)..Len(out) :
                  /\ SubSeq(out, q - 1, q) = "\n\n"
                  /\ IsLabelLine(SubSeq(out, p, q))
                  /\ InsertedLabels(in, Substring(out, 0, p - 1) \o SubstringFrom(out, q),
                                    k - 1)

HasOperator(s) ==
    \E p \in 1..(Len(s) - 7) : \A i \in 1..8 : Fold(CharAt(s, p + i - 1)) = CharAt("operator", i)

C7_OnlyLabelsInserted ==
    ppOutput.done =>
        /\ InsertedLabels(Render(ppInput), ppOutput.transcript, Len(ppOutput.changes))
        /\ ~HasOperator(Render(ppInput)) =>
              /\ ppOutput.transcript = Render(ppInput)
              /\ ppOutput.changes = <<>>

\* Two labels have gone in, one for the executive and one for the analyst.
C7_Witness ==
    /\ ppOutput.done
    /\ Len(ppOutput.changes) = 2
    /\ ppInput.text \in PlainTexts
    /\ Len(ppOutput.transcript) > Len(Render(ppInput))

\* The name a label gives the person a shape introduces, and the change
\* recorded with that label.
LabelName(sh) ==
    IF sh \in AnalystShapes THEN sh.name \o " Analyst"
    ELSE IF sh.name = "Tony  Han" THEN "Tony Han"
    ELSE sh.name
ChangeFor(sh) == "Added missing label for " \o LabelName(sh) \o " after operator introduction"
Recorded(sh) == \E i \in DOMAIN ppOutput.changes : ppOutput.changes[i] = ChangeFor(sh)

\* C15: for 'I will now turn the call over to Dr. Tony Han. Please go ahead
\* Sir.' under an Operator label, followed by a blank line and unlabeled text,
\* the output has the label '<strong>Dr. Tony Han</strong>' (and the title in
\* parentheses when the operator text mentions one) right before that text.
C15_AbbreviatedNameLabelled ==
    LET sh == ppInput
        title == IF sh.lead = "" THEN "" ELSE " (CEO)"
        labelled == HeadOf(sh) \o "\n<strong>Dr. Tony Han</strong>" \o title \o "\n\n" \o sh.text
    IN  (ppOutput.done /\ sh \in DoctorShapes) =>
            /\ Substring(ppOutput.transcript, 0, Len(labelled)) = labelled
            /\ Recorded(sh)

\* C16: a label that goes in for the person a hand-off introduces goes in
\* right before the first character of the unlabeled text: the output is the
\* input up to that text, the label, and the text itself, unbroken, also
\* when whitespace follows the text or the text ends the transcript.
C16_LabelRightBeforeText ==
    LET sh == ppInput
        head == HeadOf(sh)
        out == ppOutput.transcript
    IN  (ppOutput.done /\ Recorded(sh) /\ sh.text \notin LabelledTexts) =>
            /\ Substring(out, 0, Len(head)) = head
            /\ Substring(out, Len(head), Len(head) + 9) = "\n<strong>"
            /\ \E p \in (Len(head) + 1)..Len(out) :
                  /\ IsLabelLine(Substring(out, Len(head), p))
                  /\ Substring(out, p, p + Len(sh.text)) = sh.text

\* C19: when the text after the hand-off begins with a speaker label
\* ('<strong>' or an upper-case 'NAME()'), no label goes in at that hand-off:
\* the transcript is unchanged up to the end of that text and no change is
\* recorded for the person introduced.
C19_LabelledTextLeftAlone ==
    LET sh == ppInput
        kept == HeadOf(sh) \o sh.text
    IN  (ppOutput.done /\ sh.text \in LabelledTexts) =>
            /\ Substring(ppOutput.transcript, 0, Len(kept)) = kept
            /\ ~Recorded(sh)

\* An analyst introduction followed by an upper-case label, and another
\* speaker after it, has come back as it went in.
C19_Witness ==
    /\ ppOutput.done
    /\ ppInput \in AnalystShapes
    /\ ppInput.text = "BOB()\n\nHi"
    /\ ppInput.trail # ""
    /\ ppOutput.transcript = Render(ppInput)
    /\ ppOutput.changes = <<>>
(***************************************************************************)
(* Properties of the page with the server behind it.                       *)
(***************************************************************************)
PageCalls == {c \in InFlight : calls[c].origin = "page"}

\* C1: when the POST of a Clean click has been answered successfully, the
\* run of the click handler ends with cleanedTranscriptText equal to the
\* cleaned_transcript of that answer and with Copy and Download visible.
C1_CleanResultShown ==
    [][\A j \in DOMAIN jobs :
          (~jobs[j].settled /\ jobs'[j].settled) =>
              /\ cleanedTranscriptText' = jobs[j].data.transcript
              /\ display'["copyBtn"]
              /\ display'["downloadBtn"]]_vars

\* C3: at most one Clean, Verify Speakers or Segment request of the page is
\* awaiting its response at any time.
C3_OnePassAtATime == Cardinality(PageCalls) <= 1

\* C4: pollJobStatus makes at most 300 status requests for a job.
C4_AttemptCeiling == \A j \in DOMAIN jobs : jobs[j].attempts <= maxAttempts

\* C6: when the provider call of a Clean, Verify Speakers or Segment request
\* fails with a non-empty message m, the handler answers 500 with error m,
\* and the page, on receiving that answer, shows an error text with m in it.
C6_ProviderErrorVerbatim ==
    [][\A c \in CallIds :
          LET m == calls[c].outcome.message
          IN  (calls[c].outcome.kind = "error" /\ m # "") =>
                /\ (calls[c].pc = "settled" /\ calls'[c].pc = "answered") =>
                      /\ calls'[c].response.status = 500
                      /\ calls'[c].response.error = m
                /\ (calls[c].pc = "answered" /\ calls'[c].pc = "free") =>
                      /\ display'["errorMsg"]
                      /\ Includes(errorText', m)]_vars

\* The page shows the message of a failed Verify Speakers request.
C6_Witness ==
    /\ errorText = "Error: Rate limit exceeded"
    /\ display["errorMsg"]
    /\ cleanedTranscriptText # ""
    /\ ~disabled["verifySpeakersBtn"]

\* C13: the token total is cumulative.  A step that delivers a successful
\* Verify Speakers or Segment response adds its tokens_used to the total, a
\* step that shows the completed result of a Clean job adds the tokens_used of
\* that result, Clear sets the total to 0, and no other step changes it.
Delivered(c) == calls[c].pc = "answered" /\ calls[c].origin = "page" /\ calls'[c].pc = "free"
CleanShown ==
    changeLogContent' = Append(changeLogContent, Entry("Clean Transcript", CleanChanges))
Cleared == clicks' = clicks + 1 /\ outputArea' = Placeholder /\ changeLogContent' = <<>>

C13_TokensCumulative ==
    [][IF Cleared THEN totalTokensUsed' = 0
       ELSE IF CleanShown
       THEN \E data \in StatusReplies :
               /\ data.status = "completed"
               /\ cleanedTranscriptText' = data.cleaned_transcript
               /\ totalTokensUsed' = totalTokensUsed + data.tokens_used
       ELSE IF \E c \in CallIds : Delivered(c) /\ calls[c].response.status = 200
                                     /\ calls[c].route # "/api/process"
       THEN \E c \in CallIds :
               /\ Delivered(c)
               /\ totalTokensUsed' = totalTokensUsed + calls[c].response.tokens_used
       ELSE totalTokensUsed' = totalTokensUsed]_vars

\* C14 as the specification words it: an accepted click on Add Disclaimers
\* (one that adds the disclaimers) sends a request to the server.
Sends(route) ==
    \E c \in CallIds :
        /\ calls[c].pc = "free"
        /\ calls'[c].pc = "sent"
        /\ calls'[c].origin = "page"
        /\ calls'[c].route = route
        /\ \A d \in CallIds \ {c} : calls'[d] = calls[d]
Accepted(btn) == clicks' = clicks + 1 /\ ~disabled[btn] /\ disabled'[btn]

C14_DisclaimersCallServer ==
    [][Accepted("addDisclaimersBtn") => \E route \in Routes : Sends(route)]_vars

\* C14, amended: an accepted click on Clean, Verify Speakers or Segment sends
\* one request, to /api/process, /api/verify-speakers or /api/segment; an
\* accepted click on Add Disclaimers sends none: it puts the two fixed
\* disclaimers around the transcript in the page.
C14_ThreePassesCallServer ==
    [][/\ Accepted("processBtn") => Sends("/api/process")
       /\ Accepted("verifySpeakersBtn") => Sends("/api/verify-speakers")
       /\ Accepted("segmentBtn") => Sends("/api/segment")
       /\ Accepted("addDisclaimersBtn") =>
             /\ calls' = calls
             /\ hasDisclaimers'
             /\ cleanedTranscriptText' =
                    topDisclaimerHTML \o cleanedTranscriptText \o bottomDisclaimerHTML]_vars

\* The disclaimers are in, and the only request on its way is one of Verify
\* Speakers.
C14_Witness ==
    /\ hasDisclaimers
    /\ disabled["addDisclaimersBtn"]
    /\ disabled["verifySpeakersBtn"]
    /\ \A c \in PageCalls : calls[c].route = "/api/verify-speakers"
    /\ Cardinality(PageCalls) = 1

\* C17: when a status request is answered with an error response, the
\* client stops polling, shows the error message and enables the Clean
\* button again.  (Under ErrorPollSpec every answer is an error response.)
StatusAnswered(j) == jobs'[j].pending = jobs[j].pending - 1

C17_StatusErrorSurfaced ==
    [][\A j \in DOMAIN jobs :
          StatusAnswered(j) =>
              /\ ~jobs'[j].active
              /\ display'["errorMsg"]
              /\ Includes(errorText', "Job not found")
              /\ ~disabled'["processBtn"]]_vars

\* C20: the error 'Processing timed out. Please try again.' is never on
\* display once the completed result of the job has been shown.  (Under
\* PollSpec there is one Clean job, and its result is shown exactly when the
\* change log has the entry of the Clean pass.)
C20_NoTimeoutAfterCompleted ==
    changeLogContent # <<>> =>
        ~(display["errorMsg"] /\ errorText = "Processing timed out. Please try again.")

\* C21: once the interval of a job has been cleared, the answer of a status
\* request of that job, one that was in flight then, changes neither
\* cleanedTranscriptText nor the token total nor the change log nor the Clean
\* button; so the change log gets 'Clean Transcript' once per job at most.
C21_LateStatusIgnored ==
    [][\A j \in DOMAIN jobs :
          (~jobs[j].active /\ StatusAnswered(j)) =>
              /\ cleanedTranscriptText' = cleanedTranscriptText
              /\ totalTokensUsed' = totalTokensUsed
              /\ changeLogContent' = changeLogContent
              /\ disabled'["processBtn"] = disabled["processBtn"]]_vars

\* C22: while the POST of a Clean click is on its way or its job is being
\* polled the Clean button is disabled, and at most one job is being polled.
C22_OneCleanJob ==
    LET polled == {j \in DOMAIN jobs : jobs[j].active}
        posted == {c \in PageCalls : calls[c].route = "/api/process"}
    IN  /\ Cardinality(polled) + Cardinality(posted) <= 1
        /\ (polled # {} \/ posted # {}) => disabled["processBtn"]

\* C23: when every request is answered, a Clean click that disabled the
\* button is followed by a state in which the button is enabled again and no
\* job is being polled, whatever the status endpoint answers.
C23_CleanEndsEventually ==
    disabled["processBtn"] ~>
        (~disabled["processBtn"] /\ \A j \in DOMAIN jobs : ~jobs[j].active)

\* A job has been given up after its 300th attempt.
C23_Witness ==
    /\ ~disabled["processBtn"]
    /\ errorText = "Error: Processing timed out"
    /\ \E j \in DOMAIN jobs : ~jobs[j].active /\ jobs[j].attempts >= maxAttempts

\* What the Clear handler leaves: no cleaned text, no tokens counted, no
\* disclaimers, the five result buttons hidden.
ClearedState ==
    /\ cleanedTranscriptText = ""
    /\ totalTokensUsed = 0
    /\ ~hasDisclaimers
    /\ \A b \in ActionButtons : ~display[b]

\* C24: the state Clear leaves stays until Clean Transcript is clicked again,
\* also when a Clean, Verify or Segment request was in flight at the click.
\* The input box is empty from Clear until the user types, and a Clean click
\* on an empty box is refused: while it is empty no step leaves the cleared
\* state.
C24_ClearedStaysCleared ==
    [][(rawTranscript = "" /\ ClearedState) => ClearedState']_vars

\* The button of a pass.
PassButton(route) ==
    IF route = "/api/verify-speakers" THEN "verifySpeakersBtn" ELSE "segmentBtn"

\* This step ends the Verify or Segment request c of the page in failure:
\* its fetch rejects, or its response is delivered and is not OK.
PassFails(c) ==
    /\ calls[c].origin = "page"
    /\ calls[c].route \in {"/api/verify-speakers", "/api/segment"}
    /\ calls'[c] = FreeCall
    /\ \/ calls[c].pc = "sent"
       \/ calls[c].pc = "answered" /\ calls[c].response.status # 200

\* C25: a Verify or Segment request that fails leaves cleanedTranscriptText,
\* totalTokensUsed and hasDisclaimers as they were, shows an error message
\* and enables the button of the pass again.
C25_FailedPassChangesNothing ==
    [][\A c \in CallIds :
          PassFails(c) =>
              /\ cleanedTranscriptText' = cleanedTranscriptText
              /\ totalTokensUsed' = totalTokensUsed
              /\ hasDisclaimers' = hasDisclaimers
              /\ display'["errorMsg"]
              /\ Substring(errorText', 0, 7) = "Error: "
              /\ ~disabled'[PassButton(calls[c].route)]]_vars

\* A Segment request has failed on a cleaned transcript of 7 tokens.
C25_Witness ==
    /\ errorText = "Error: " \o FailureMessage("/api/segment")
    /\ display["errorMsg"]
    /\ ~disabled["segmentBtn"]
    /\ cleanedTranscriptText # ""
    /\ totalTokensUsed = 7
    /\ \A c \in CallIds : calls[c].pc = "free"
====
